---- MODULE Spec2Model ----
(***************************************************************************)
(* Model of src/gas_price_increase.rs: the minimum gas price increase      *)
(* filter that adapts a stream of gas price estimates.                     *)
(*                                                                         *)
(* Numbers.  An f64 price is an integer count of 1/Scale price units, so   *)
(* that with Scale = 2 the value 3 stands for 1.5.  Three sentinels stand  *)
(* for the non-finite f64 values.  A quote is a record                     *)
(*   [cap |-> max fee, tip |-> priority fee, base |-> base fee];           *)
(* a legacy quote is one with tip = cap.  An Option is a sequence of       *)
(* length 0 (None) or 1 (Some).                                            *)
(***************************************************************************)
EXTENDS Integers, Sequences, FiniteSets, TLC

\* ------------------------------------------------------------------ bounds
\* 1/Scale is the resolution of the price grid.
Scale == 2
\* Largest cap and tip of an input quote, in 1/Scale units.
MaxVal == 6
\* Largest base fee of an input quote, in 1/Scale units.
MaxBase == 1
\* Largest ceiling, in 1/Scale units.
MaxCeiling == 5
\* f64::EPSILON is modelled as 1/EpsDen.
EpsDen == 4096
\* Largest cap minimum_increase is applied to on its own, in 1/Scale units.
MaxFloorVal == 40
\* How often minimum_increase is applied to its own result.
MaxApplications == 2
\* Largest cap of an input of two filters that run side by side.
MaxPairVal == 4
\* How many elements the two filters process together.
MaxPolls == 3

\* ------------------------------------------------------- f64 special values
Inf == 1000000
NegInf == -1000000
NaN == 2000000

is_finite(x) == x \notin {Inf, NegInf, NaN}

\* x >= 0.0 on f64: false for NaN.
ge_zero(x) == x # NaN /\ x >= 0

\* f64::min for the values that reach it (finite ones).
min(x, y) == IF x <= y THEN x ELSE y

\* --------------------------------------------- gas_estimation price model
None == << >>
Some(q) == << q >>
is_some(o) == Len(o) = 1
unwrap(o) == o[1]

cap(q) == q.cap
tip(q) == q.tip

\* The price the assertion of the filter looks at.
effective_gas_price(q) == q.cap

\* MIN_GAS_PRICE_INCREASE_FACTOR = 1.125 * (1 + EPSILON), as a fraction.
MIN_GAS_PRICE_INCREASE_FACTOR == [num |-> 9 * (EpsDen + 1), den |-> 8 * EpsDen]

\* bump multiplies cap and tip by the factor.  The result is kept exact: it
\* counts units of 1/(Scale * factor.den).
bump(q, factor) ==
    [cap |-> q.cap * factor.num, tip |-> q.tip * factor.num, base |-> q.base]

\* Smallest multiple of d that is >= x.
CeilTo(x, d) == (-((-x) \div d)) * d

\* ceil rounds cap and tip of a bumped quote up to a whole price unit and
\* gives the result back in 1/Scale units.
ceil(q, den) ==
    [cap |-> CeilTo(q.cap, Scale * den) \div den,
     tip |-> CeilTo(q.tip, Scale * den) \div den,
     base |-> q.base]

\* limit_cap: the cap is at most the ceiling, the tip at most the new cap.
limit_cap(q, ceiling) ==
    [cap |-> min(q.cap, ceiling),
     tip |-> min(q.tip, min(q.cap, ceiling)),
     base |-> q.base]

\* ------------------------------------------------ src/gas_price_increase.rs
\* Variant: the bumped price is rounded down to a whole price unit.
minimum_increase_rounded_down(previous_gas_price) ==
    LET f == MIN_GAS_PRICE_INCREASE_FACTOR IN
    [cap |-> ((previous_gas_price.cap * f.num) \div (Scale * f.den)) * Scale,
     tip |-> ((previous_gas_price.tip * f.num) \div (Scale * f.den)) * Scale,
     base |-> previous_gas_price.base]

\* Variant: the previous price is not bumped.
minimum_increase_no_bump(previous_gas_price) ==
    previous_gas_price

minimum_increase(previous_gas_price) ==
    ceil(bump(previous_gas_price, MIN_GAS_PRICE_INCREASE_FACTOR),
         MIN_GAS_PRICE_INCREASE_FACTOR.den)

\* Variant: the candidate is never rounded up to the minimum increase.
new_price_no_round_up(min_gas_price, new_gas_price) ==
    new_gas_price

\* Variant: the candidate is kept when either field reaches the minimum.
new_price_either_field(min_gas_price, new_gas_price) ==
    IF cap(new_gas_price) >= cap(min_gas_price)
       \/ tip(new_gas_price) >= tip(min_gas_price)
    THEN new_gas_price
    ELSE min_gas_price

\* Variant: the candidate is compared with the minimum increase field by
\* field, the base fee included.
new_price_compares_base(min_gas_price, new_gas_price) ==
    IF cap(new_gas_price) >= cap(min_gas_price)
       /\ tip(new_gas_price) >= tip(min_gas_price)
       /\ new_gas_price.base >= min_gas_price.base
    THEN new_gas_price
    ELSE min_gas_price

\* Variant: only the cap is compared with the minimum increase.
new_price_cap_reaches(min_gas_price, new_gas_price) ==
    IF cap(new_gas_price) >= cap(min_gas_price)
    THEN new_gas_price
    ELSE min_gas_price

\* The value chosen before clamping (the let new_price of the function).
new_price(min_gas_price, new_gas_price) ==
    IF cap(new_gas_price) >= cap(min_gas_price)
       /\ tip(new_gas_price) >= tip(min_gas_price)
    THEN new_gas_price
    ELSE min_gas_price

\* Variant: the chosen price is returned without limit_cap.
new_gas_price_estimate_no_limit(previous_gas_price, new_gas_price, max_gas_price) ==
    LET min_gas_price == minimum_increase(previous_gas_price) IN
    IF cap(min_gas_price) > max_gas_price
    THEN None
    ELSE IF cap(new_gas_price) <= cap(previous_gas_price)
            \/ tip(new_gas_price) <= tip(previous_gas_price)
    THEN None
    ELSE Some(new_price(min_gas_price, new_gas_price))

\* Variant: a candidate with the cap of the previous price counts as increased.
new_gas_price_estimate_strict_cap(previous_gas_price, new_gas_price, max_gas_price) ==
    LET min_gas_price == minimum_increase(previous_gas_price) IN
    IF cap(min_gas_price) > max_gas_price
    THEN None
    ELSE IF cap(new_gas_price) < cap(previous_gas_price)
            \/ tip(new_gas_price) <= tip(previous_gas_price)
    THEN None
    ELSE Some(limit_cap(new_price(min_gas_price, new_gas_price), max_gas_price))

\* Variant: the minimum increase is not compared with the ceiling.
new_gas_price_estimate_no_ceiling_check(previous_gas_price, new_gas_price, max_gas_price) ==
    LET min_gas_price == minimum_increase(previous_gas_price) IN
    IF cap(new_gas_price) <= cap(previous_gas_price)
       \/ tip(new_gas_price) <= tip(previous_gas_price)
    THEN None
    ELSE Some(limit_cap(new_price(min_gas_price, new_gas_price), max_gas_price))

\* Variant: only the cap is compared with the previous price.
new_gas_price_estimate_cap_only(previous_gas_price, new_gas_price, max_gas_price) ==
    LET min_gas_price == minimum_increase(previous_gas_price) IN
    IF cap(min_gas_price) > max_gas_price
    THEN None
    ELSE IF cap(new_gas_price) <= cap(previous_gas_price)
    THEN None
    ELSE Some(limit_cap(new_price(min_gas_price, new_gas_price), max_gas_price))

new_gas_price_estimate(previous_gas_price, new_gas_price, max_gas_price) ==
    LET min_gas_price == minimum_increase(previous_gas_price) IN
    IF cap(min_gas_price) > max_gas_price
    THEN None
    ELSE IF cap(new_gas_price) <= cap(previous_gas_price)
            \/ tip(new_gas_price) <= tip(previous_gas_price)
    THEN None
    ELSE Some(limit_cap(new_price(min_gas_price, new_gas_price), max_gas_price))

\* ------------------------------------------------------------------ inputs
\* Quotes that satisfy the precondition of the filter.
ValidQuotes ==
    [cap : 0..MaxVal, tip : 0..MaxVal, base : 0..MaxBase]

\* Quotes with a negative or non-finite cap.
InvalidQuotes ==
    [cap : {-1, Inf, NegInf, NaN}, tip : {0, 1}, base : {0}]

Quotes == ValidQuotes \cup InvalidQuotes

Ceilings == 0..MaxCeiling

\* ------------------------------------------------------------------- state
VARIABLES
    gas_price_cap,        \* the ceiling the filter was created with
    last_used_gas_price,  \* Option: the state captured by the closure
    gas_price,            \* Option: the element the closure was last called with
    previous,             \* last_used_gas_price when that call started
    yielded,              \* Option: what that call gave to filter_map
    outcome,              \* "none", "emitted", "dropped" or "panic"
    last_emitted,         \* Option: the item the output stream carried before that call
    arg,                  \* Option: a quote minimum_increase is applied to on its own
    applied,              \* the results of applying minimum_increase to arg repeatedly
    twin,                 \* two runs of one filter on inputs that differ in base fee
    filters               \* two filters made by separate calls, each with its streams

\* The variables of the single filter.
vars == << gas_price_cap, last_used_gas_price, gas_price, previous, yielded, outcome,
           last_emitted >>

\* The variables of the direct applications of minimum_increase.
floor_vars == << arg, applied >>

\* No direct application of minimum_increase is in progress.
FloorIdle ==
    /\ arg = None
    /\ applied = << >>

\* The variables of the runs of two filters.
two_vars == << twin, filters >>

\* No second filter exists.
TwoIdle ==
    /\ twin = << >>
    /\ filters = << >>

Init ==
    /\ gas_price_cap \in Ceilings
    /\ last_used_gas_price = None
    /\ gas_price = None
    /\ previous = None
    /\ yielded = None
    /\ outcome = "none"
    /\ last_emitted = None
    /\ FloorIdle
    /\ TwoIdle

\* Variant: the first element is yielded as it came.
closure_result_first_unlimited(last, new, max_gas_price) ==
    IF is_some(last)
    THEN new_gas_price_estimate(unwrap(last), new, max_gas_price)
    ELSE Some(new)

\* The result of the closure's if-let: the Option it stores and yields.
closure_result(last, new, max_gas_price) ==
    IF is_some(last)
    THEN new_gas_price_estimate(unwrap(last), new, max_gas_price)
    ELSE Some(limit_cap(new, max_gas_price))

\* One call of the filter_map closure as a function of the captured state:
\* what the call does, what it yields and the state it leaves.
closure_call(last, new, max_gas_price) ==
    IF ~(is_finite(effective_gas_price(new)) /\ ge_zero(effective_gas_price(new)))
    THEN [outcome |-> "panic", yielded |-> None, last |-> last]
    ELSE LET r == closure_result(last, new, max_gas_price) IN
         [outcome |-> IF is_some(r) THEN "emitted" ELSE "dropped",
          yielded |-> r,
          last |-> IF is_some(r) THEN r ELSE last]

\* Variant: the closure remembers the element as it came, not the value it
\* yields.
enforce_minimum_increase_and_cap_store_input(new) ==
    /\ outcome # "panic"
    /\ gas_price' = Some(new)
    /\ previous' = last_used_gas_price
    /\ gas_price_cap' = gas_price_cap
    /\ last_emitted' = IF outcome = "emitted" THEN yielded ELSE last_emitted
    /\ IF ~(is_finite(effective_gas_price(new)) /\ ge_zero(effective_gas_price(new)))
       THEN /\ outcome' = "panic"
            /\ yielded' = None
            /\ last_used_gas_price' = last_used_gas_price
       ELSE LET r == closure_result(last_used_gas_price, new, gas_price_cap) IN
            /\ yielded' = r
            /\ last_used_gas_price' = IF is_some(r) THEN Some(new) ELSE last_used_gas_price
            /\ outcome' = IF is_some(r) THEN "emitted" ELSE "dropped"

\* Variant: an element that fails the assertion is filtered out and the stream
\* goes on.
enforce_minimum_increase_and_cap_skip_invalid(new) ==
    /\ outcome # "panic"
    /\ gas_price' = Some(new)
    /\ previous' = last_used_gas_price
    /\ gas_price_cap' = gas_price_cap
    /\ last_emitted' = IF outcome = "emitted" THEN yielded ELSE last_emitted
    /\ IF ~(is_finite(effective_gas_price(new)) /\ ge_zero(effective_gas_price(new)))
       THEN /\ outcome' = "dropped"
            /\ yielded' = None
            /\ last_used_gas_price' = last_used_gas_price
       ELSE LET r == closure_result(last_used_gas_price, new, gas_price_cap) IN
            /\ yielded' = r
            /\ last_used_gas_price' = IF is_some(r) THEN r ELSE last_used_gas_price
            /\ outcome' = IF is_some(r) THEN "emitted" ELSE "dropped"

\* One call of the filter_map closure on the next element of the stream.
\* A failed assertion unwinds: the stream is never polled again.
enforce_minimum_increase_and_cap(new) ==
    /\ outcome # "panic"
    /\ gas_price' = Some(new)
    /\ previous' = last_used_gas_price
    /\ gas_price_cap' = gas_price_cap
    /\ last_emitted' = IF outcome = "emitted" THEN yielded ELSE last_emitted
    /\ LET call == closure_call(last_used_gas_price, new, gas_price_cap) IN
       /\ outcome' = call.outcome
       /\ yielded' = call.yielded
       /\ last_used_gas_price' = call.last

Next ==
    \E new \in Quotes :
        enforce_minimum_increase_and_cap(new) /\ UNCHANGED << floor_vars, two_vars >>

Spec == Init /\ [][Next]_vars

\* ------------------------------------- minimum_increase applied on its own
\* The quotes minimum_increase is applied to: cap >= 0, tip 0 or 1/Scale.
FloorQuotes ==
    {[cap |-> c, tip |-> t, base |-> 0] : c \in 0..MaxFloorVal, t \in {0, 1}}

\* No filter runs.
FilterIdle ==
    /\ gas_price_cap = 0
    /\ last_used_gas_price = None
    /\ gas_price = None
    /\ previous = None
    /\ yielded = None
    /\ outcome = "none"
    /\ last_emitted = None

InitFloor ==
    /\ FilterIdle
    /\ arg \in {Some(q) : q \in FloorQuotes}
    /\ applied = << >>
    /\ TwoIdle

\* A caller applies minimum_increase to the quote, then to the result.
apply_minimum_increase ==
    /\ Len(applied) < MaxApplications
    /\ applied' = Append(applied,
                         minimum_increase(IF applied = << >> THEN unwrap(arg)
                                          ELSE applied[Len(applied)]))
    /\ arg' = arg

NextFloor == apply_minimum_increase /\ UNCHANGED << vars, two_vars >>

SpecFloor == InitFloor /\ [][NextFloor]_<< vars, floor_vars >>

\* ------------------------------ one filter run twice, base fees differing
\* A run of the filter: its ceiling, its captured state and what its latest
\* call did.
NewRun(ceiling) ==
    [ceiling |-> ceiling, last |-> None, yielded |-> None, outcome |-> "none"]

InitTwin ==
    /\ FilterIdle
    /\ FloorIdle
    /\ filters = << >>
    /\ \E ceiling \in Ceilings : twin = << NewRun(ceiling), NewRun(ceiling) >>

\* One call of the closure of a run.
run_call(run, new) ==
    LET call == closure_call(run.last, new, run.ceiling) IN
    [ceiling |-> run.ceiling,
     last |-> call.last,
     yielded |-> call.yielded,
     outcome |-> call.outcome]

\* Both runs get their next element: the same cap and tip (a valid cap),
\* each its own base fee.
feed_twins(c, t, base1, base2) ==
    /\ \A i \in 1..2 : twin[i].outcome # "panic"
    /\ twin' = << run_call(twin[1], [cap |-> c, tip |-> t, base |-> base1]),
                  run_call(twin[2], [cap |-> c, tip |-> t, base |-> base2]) >>

NextTwin ==
    \E c \in 0..MaxVal, t \in 0..MaxVal, base1 \in 0..MaxBase, base2 \in 0..MaxBase :
        feed_twins(c, t, base1, base2) /\ UNCHANGED << vars, floor_vars, filters >>

SpecTwin == InitTwin /\ [][NextTwin]_<< vars, floor_vars, two_vars >>

\* ------------------------------------ two filters made by separate calls
FilterIds == 1..2

\* The elements of the two input streams: cap >= 0, tip 0 or the cap.
PairQuotes ==
    {q \in [cap : 0..MaxPairVal, tip : 0..MaxPairVal, base : {0}] :
        q.tip \in {0, q.cap}}

PairCeilings == {Scale, MaxPairVal}

\* A filter as enforce_minimum_increase_and_cap returns it, with the elements
\* its input stream has given and the items its output stream has carried.
NewFilter(ceiling) ==
    [ceiling |-> ceiling, last |-> None, inputs |-> << >>, outputs |-> << >>]

InitPair ==
    /\ FilterIdle
    /\ FloorIdle
    /\ twin = << >>
    /\ filters \in [FilterIds -> {NewFilter(ceiling) : ceiling \in PairCeilings}]

\* Elements processed so far by both filters.
Polls == Len(filters[1].inputs) + Len(filters[2].inputs)

\* Variant: the last used gas price is one cell that all filters share.
poll_filter_shared_state(f, new) ==
    LET call == closure_call(filters[f].last, new, filters[f].ceiling) IN
    /\ Polls < MaxPolls
    /\ filters' = [g \in FilterIds |->
                     IF g = f
                     THEN [ceiling |-> filters[f].ceiling,
                           last |-> call.last,
                           inputs |-> Append(filters[f].inputs, new),
                           outputs |-> filters[f].outputs \o call.yielded]
                     ELSE [filters[g] EXCEPT !.last = call.last]]

\* Filter f processes the next element of its input stream: one call of its
\* closure, which reads and writes the state that closure captured.
poll_filter(f, new) ==
    LET call == closure_call(filters[f].last, new, filters[f].ceiling) IN
    /\ Polls < MaxPolls
    /\ filters' = [filters EXCEPT
                     ![f] = [ceiling |-> filters[f].ceiling,
                             last |-> call.last,
                             inputs |-> Append(filters[f].inputs, new),
                             outputs |-> filters[f].outputs \o call.yielded]]

NextPair ==
    \E f \in FilterIds, new \in PairQuotes :
        poll_filter(f, new) /\ UNCHANGED << vars, floor_vars, twin >>

SpecPair == InitPair /\ [][NextPair]_<< vars, floor_vars, two_vars >>

\* ------------------------------------------------------------- vocabulary
\* The element of the latest call and the quotes around it.
Called == outcome # "none"
Emitted == outcome = "emitted"
candidate == unwrap(gas_price)
item == unwrap(yielded)
\* The element satisfies the precondition of the filter.
ValidCandidate == Called /\ is_finite(candidate.cap) /\ candidate.cap >= 0
\* The latest call was not the first: a last used gas price existed.
HadLast == Called /\ is_some(previous)
\* The latest emission has a predecessor in the output stream.
Consecutive == Emitted /\ is_some(last_emitted)
Q(c, t, b) == [cap |-> c, tip |-> t, base |-> b]

\* ---------------------------------------------------------------- claims
\* C1. Ceiling property: every emitted quote, the first one and every later
\* one, has a cap that is at most the ceiling.
C1_Ceiling == Emitted => item.cap <= gas_price_cap

\* A later element whose cap is above the ceiling was emitted.
C1_Witness ==
    /\ Emitted /\ HadLast
    /\ candidate.cap > gas_price_cap
    /\ item.cap = gas_price_cap
    /\ item.cap > unwrap(previous).cap

\* C2. Every emitted quote other than the first has a cap of at least the
\* cap of minimum_increase of the previously emitted quote, also when it was
\* clamped to the ceiling.
C2_MinimumIncrease ==
    Consecutive => item.cap >= minimum_increase(unwrap(last_emitted)).cap

\* A candidate below the minimum increase was emitted, and one was clamped.
C2_Witness ==
    /\ Consecutive
    /\ candidate.cap < minimum_increase(unwrap(last_emitted)).cap
    /\ item.cap = gas_price_cap
    /\ unwrap(last_emitted).cap > 0

\* C3. Monotonic cap: for consecutive emitted quotes a then b,
\* b.cap >= ceil(a.cap * MIN_FACTOR) or b.cap = ceiling.
C3_MonotonicCap ==
    Consecutive =>
        LET a == unwrap(last_emitted)
            f == MIN_GAS_PRICE_INCREASE_FACTOR
            \* a.cap * f in whole price units, rounded up, then in 1/Scale
            bound == (-((-(a.cap * f.num)) \div (Scale * f.den))) * Scale
        IN  item.cap >= bound \/ item.cap = gas_price_cap

\* An emission strictly below the ceiling that follows a positive one.
C3_Witness ==
    /\ Consecutive
    /\ unwrap(last_emitted).cap > 0
    /\ item.cap < gas_price_cap

\* C4. No false acceptance: once a last accepted quote exists, a candidate
\* whose cap is at most last.cap is never emitted and leaves last unchanged.
C4_NoFalseAcceptance ==
    (HadLast /\ is_finite(candidate.cap) /\ candidate.cap <= unwrap(previous).cap)
        => /\ ~Emitted
           /\ yielded = None
           /\ last_used_gas_price = previous

\* A candidate with the cap of last and a larger tip was dropped although a
\* minimum increase fits under the ceiling.
C4_Witness ==
    /\ HadLast /\ outcome = "dropped"
    /\ candidate.cap = unwrap(previous).cap
    /\ candidate.cap > 0
    /\ candidate.tip > unwrap(previous).tip
    /\ minimum_increase(unwrap(previous)).cap <= gas_price_cap

\* C5. Permanent rejection: once minimum_increase(last).cap > ceiling, every
\* later call emits nothing and leaves last unchanged whatever the cap and
\* tip of the candidate (a valid one is dropped), and the condition holds
\* again after the call.
CeilingUnreachable ==
    /\ is_some(last_used_gas_price)
    /\ minimum_increase(unwrap(last_used_gas_price)).cap > gas_price_cap

C5_PermanentRejection ==
    [][CeilingUnreachable =>
          /\ outcome' # "emitted"
          /\ yielded' = None
          /\ (ValidCandidate' => outcome' = "dropped")
          /\ last_used_gas_price' = last_used_gas_price
          /\ CeilingUnreachable']_vars

\* A candidate above the ceiling, with cap and tip above those of last, was
\* dropped because the minimum increase of last is above the ceiling.
C5_Witness ==
    /\ HadLast /\ outcome = "dropped"
    /\ minimum_increase(unwrap(previous)).cap > gas_price_cap
    /\ candidate.cap > gas_price_cap
    /\ candidate.cap > unwrap(previous).cap
    /\ candidate.tip > unwrap(previous).tip

\* C6. First element rule: while last is empty a valid element is always
\* emitted, as limit_cap(new, ceiling): cap = min(new.cap, ceiling), the
\* quote unchanged when new.cap <= ceiling (and tip <= cap), and last becomes
\* the emitted value.
C6_FirstElement ==
    (ValidCandidate /\ previous = None) =>
        /\ Emitted
        /\ is_some(yielded)
        /\ item.cap = (IF candidate.cap <= gas_price_cap
                       THEN candidate.cap ELSE gas_price_cap)
        /\ item.tip = (IF candidate.tip <= item.cap THEN candidate.tip ELSE item.cap)
        /\ item.base = candidate.base
        /\ ((candidate.cap <= gas_price_cap /\ candidate.tip <= candidate.cap)
              => item = candidate)
        /\ last_used_gas_price = yielded

\* The first element had a cap above the ceiling and was emitted clamped.
C6_Witness ==
    /\ ValidCandidate /\ previous = None /\ Emitted
    /\ candidate.cap > gas_price_cap
    /\ item.cap = gas_price_cap
    /\ candidate.tip < gas_price_cap

\* C7. Precondition violation aborts: an element whose cap is negative or
\* not finite, first or later, rejected by the policy or not, makes the call
\* panic: nothing is yielded, last is not updated, and no call follows a
\* panic.
C7_PreconditionAborts ==
    [][/\ outcome # "panic"
       /\ (~ValidCandidate' =>
              /\ outcome' = "panic"
              /\ yielded' = None
              /\ last_used_gas_price' = last_used_gas_price)]_vars

\* A later element with a non-finite cap panicked although the policy would
\* have dropped it anyway.
C7_Witness ==
    /\ HadLast /\ outcome = "panic"
    /\ ~is_finite(candidate.cap)
    /\ minimum_increase(unwrap(previous)).cap > gas_price_cap
    /\ last_used_gas_price = previous

\* C8. Choice of the accepted value: an emitted non-first candidate is the
\* clamped candidate itself when its cap and its tip both reach those of
\* min_price = minimum_increase(prev), and the clamped min_price otherwise
\* (prev 10, candidate 11, ceiling 20 gives 12; candidate 13 gives 13).
C8_ChoiceOfAcceptedValue ==
    /\ (HadLast /\ Emitted) =>
          LET m == minimum_increase(unwrap(previous))
              chosen == IF candidate.cap >= m.cap /\ candidate.tip >= m.tip
                        THEN candidate ELSE m
              c == IF chosen.cap <= gas_price_cap THEN chosen.cap ELSE gas_price_cap
          IN  item = [cap |-> c,
                      tip |-> IF chosen.tip <= c THEN chosen.tip ELSE c,
                      base |-> chosen.base]
    /\ new_gas_price_estimate(Q(10 * Scale, 10 * Scale, 0), Q(11 * Scale, 11 * Scale, 0),
                              20 * Scale) = Some(Q(12 * Scale, 12 * Scale, 0))
    /\ new_gas_price_estimate(Q(10 * Scale, 10 * Scale, 0), Q(13 * Scale, 13 * Scale, 0),
                              20 * Scale) = Some(Q(13 * Scale, 13 * Scale, 0))

\* A candidate whose cap reaches the minimum increase but whose tip does not
\* was replaced by the minimum increase, below the ceiling.
C8_Witness ==
    /\ HadLast /\ Emitted
    /\ candidate.cap >= minimum_increase(unwrap(previous)).cap
    /\ candidate.tip < minimum_increase(unwrap(previous)).tip
    /\ item.cap < gas_price_cap
    /\ item # candidate

\* C9. Tip-aware rejection: once a last accepted quote exists, a candidate
\* whose tip is at most last.tip is dropped and last is unchanged, also when
\* its cap is above last.cap (last (1.0, tip t), candidate (2.0, tip t)).
C9_TipAwareRejection ==
    /\ (HadLast /\ ValidCandidate /\ candidate.tip <= unwrap(previous).tip) =>
          /\ outcome = "dropped"
          /\ yielded = None
          /\ last_used_gas_price = previous
    /\ new_gas_price_estimate(Q(Scale, 1, 0), Q(2 * Scale, 1, 0), 2 * Scale) = None

\* A candidate with a larger cap and the same tip was dropped although its
\* cap reaches a minimum increase that fits under the ceiling.
C9_Witness ==
    /\ HadLast /\ outcome = "dropped"
    /\ candidate.tip = unwrap(previous).tip
    /\ candidate.cap >= minimum_increase(unwrap(previous)).cap
    /\ candidate.cap > unwrap(previous).cap
    /\ minimum_increase(unwrap(previous)).cap <= gas_price_cap

\* C10. Emitted quotes are strictly increasing in cap: consecutive emitted
\* quotes a then b satisfy b.cap > a.cap, for every ceiling >= 0.
C10_StrictlyIncreasing ==
    Consecutive => item.cap > unwrap(last_emitted).cap

\* C12. Filter state tracks the emitted value: last is empty exactly when
\* nothing has been emitted yet and otherwise is the most recently emitted
\* quote (the value that was emitted, not the raw input); a call that emits
\* nothing leaves last unchanged.
MostRecentlyEmitted == IF Emitted THEN yielded ELSE last_emitted

C12_LastTracksEmitted ==
    /\ last_used_gas_price = MostRecentlyEmitted
    /\ (last_used_gas_price = None) <=> (~Emitted /\ last_emitted = None)
    /\ (Called /\ ~Emitted) => (yielded = None /\ last_used_gas_price = previous)

\* A later candidate was rounded up and clamped: the emitted value differs
\* from the input and last is the emitted value.
C12_Witness ==
    /\ HadLast /\ Emitted
    /\ item # candidate
    /\ item.cap > candidate.cap
    /\ last_used_gas_price = Some(item)

\* C13. Adjustment is only ever upward: an emitted non-first candidate has a
\* cap of at least min(candidate.cap, ceiling); a candidate above the ceiling
\* is emitted with the cap of the ceiling.
C13_OnlyUpward ==
    (HadLast /\ Emitted) =>
        /\ item.cap >= (IF candidate.cap <= gas_price_cap
                        THEN candidate.cap ELSE gas_price_cap)
        /\ (candidate.cap > gas_price_cap => item.cap = gas_price_cap)

\* C14. Every emitted quote has tip <= cap; when the cap is clamped to the
\* ceiling a tip above the ceiling becomes the new cap (cap 1500, tip 600,
\* ceiling 500 gives cap 500, tip 500) and a tip at or below it is kept
\* (tip 400 stays 400).
C14_TipAtMostCap ==
    /\ Emitted => item.tip <= item.cap
    /\ Emitted =>
          LET m == minimum_increase(unwrap(previous))
              chosen == IF previous = None THEN candidate
                        ELSE IF candidate.cap >= m.cap /\ candidate.tip >= m.tip
                        THEN candidate ELSE m
          IN  chosen.cap > gas_price_cap =>
                 /\ item.cap = gas_price_cap
                 /\ item.tip = (IF chosen.tip > gas_price_cap
                                THEN gas_price_cap ELSE chosen.tip)
    /\ closure_result(None, Q(1500 * Scale, 600 * Scale, 50 * Scale), 500 * Scale)
          = Some(Q(500 * Scale, 500 * Scale, 50 * Scale))
    /\ closure_result(None, Q(1500 * Scale, 400 * Scale, 50 * Scale), 500 * Scale)
          = Some(Q(500 * Scale, 400 * Scale, 50 * Scale))

\* A later candidate with tip <= cap and a tip above the ceiling was emitted
\* with tip = cap = ceiling.
C14_Witness ==
    /\ HadLast /\ Emitted
    /\ candidate.tip <= candidate.cap
    /\ candidate.tip > gas_price_cap
    /\ item.tip = gas_price_cap
    /\ item.cap = gas_price_cap

\* C15. Model-specific fields are carried through from the candidate: every
\* emitted quote carries the base fee of the candidate whose call emitted
\* it, whether passed through, rounded up or clamped.
C15_BaseFromCandidate ==
    Emitted => item.base = candidate.base

\* C18. Tips also respect the minimum increase: consecutive emitted quotes a
\* then b satisfy b.tip >= minimum_increase(a).tip, also after b's cap was
\* clamped, so an emitted tip is never lower than the one emitted before.
C18_TipMinimumIncrease ==
    Consecutive =>
        /\ item.tip >= minimum_increase(unwrap(last_emitted)).tip
        /\ item.tip >= unwrap(last_emitted).tip

\* A clamped emission with inputs of tip <= cap whose candidate tip was below
\* the minimum increase of the previous tip.
C18_Witness ==
    /\ Consecutive
    /\ candidate.tip <= candidate.cap
    /\ unwrap(last_emitted).tip > 0
    /\ candidate.tip < minimum_increase(unwrap(last_emitted)).tip
    /\ item.cap = gas_price_cap
    /\ candidate.cap > gas_price_cap

\* C17. Idempotent floor: for every quote x with cap >= 0, minimum_increase
\* never gives a smaller cap than its input:
\* minimum_increase(minimum_increase(x)).cap >= minimum_increase(x).cap
\* >= x.cap, and minimum_increase(x).cap > x.cap whenever x.cap > 0.
C17_IdempotentFloor ==
    \A i \in 1..Len(applied) :
        LET input == IF i = 1 THEN unwrap(arg) ELSE applied[i - 1] IN
        /\ applied[i].cap >= input.cap
        /\ (input.cap > 0 => applied[i].cap > input.cap)

\* minimum_increase was applied twice to a quote whose cap times 1.125 is a
\* whole number of price units: the first result is above that number.
C17_Witness ==
    /\ Len(applied) >= 2
    /\ unwrap(arg).cap = 8 * Scale
    /\ applied[1].cap = 10 * Scale
    /\ applied[2].cap > applied[1].cap

\* C16. Base fee does not influence the decision: two runs of the filter
\* with the same ceiling on inputs that agree on cap and tip (cap finite and
\* >= 0) and differ only in base fee give every element the same outcome, and
\* the emitted quotes have the same cap and tip.
C16_BaseFeeNoInfluence ==
    twin # << >> =>
        /\ twin[1].outcome = twin[2].outcome
        /\ is_some(twin[1].yielded) <=> is_some(twin[2].yielded)
        /\ is_some(twin[1].yielded) =>
              /\ unwrap(twin[1].yielded).cap = unwrap(twin[2].yielded).cap
              /\ unwrap(twin[1].yielded).tip = unwrap(twin[2].yielded).tip

\* Both runs emitted a quote above a positive earlier one, with different
\* base fees.
C16_Witness ==
    /\ twin # << >>
    /\ twin[1].outcome = "emitted" /\ twin[2].outcome = "emitted"
    /\ unwrap(twin[1].yielded).base # unwrap(twin[2].yielded).base
    /\ unwrap(twin[1].yielded).cap > Scale
    /\ unwrap(twin[1].yielded).cap < twin[1].ceiling

\* C11. Filter instances are independent: under every interleaving of their
\* input elements each of two filters emits exactly the sequence it emits
\* when run alone on its own inputs with its own ceiling.
RECURSIVE LastAlone(_, _)
\* The state of a filter run alone after the elements of a sequence.
LastAlone(inputs, ceiling) ==
    IF inputs = << >> THEN None
    ELSE closure_call(LastAlone(SubSeq(inputs, 1, Len(inputs) - 1), ceiling),
                      inputs[Len(inputs)], ceiling).last

RECURSIVE EmittedAlone(_, _)
\* The items a filter run alone emits for the elements of a sequence.
EmittedAlone(inputs, ceiling) ==
    IF inputs = << >> THEN << >>
    ELSE LET before == SubSeq(inputs, 1, Len(inputs) - 1) IN
         EmittedAlone(before, ceiling)
            \o closure_call(LastAlone(before, ceiling), inputs[Len(inputs)],
                            ceiling).yielded

C11_Independent ==
    filters # << >> =>
        \A f \in FilterIds :
            filters[f].outputs = EmittedAlone(filters[f].inputs, filters[f].ceiling)

\* Both filters have emitted, the second after the first, each its own
\* items.
C11_Witness ==
    /\ filters # << >>
    /\ Len(filters[1].outputs) >= 1
    /\ Len(filters[2].outputs) >= 2
    /\ filters[1].outputs[1] # filters[2].outputs[1]
    /\ filters[1].last # filters[2].last

====
